---- MODULE Spec2Model ----
(***************************************************************************)
(* A model of the settlement netting and collateral optimisation engine:   *)
(* solve_ntsp (src/Model.py) compiles an NTSPInput bundle                  *)
(* (src/DataModels.py) into decision variables, an objective and linear    *)
(* constraints, hands them to an external MILP solver and extracts the     *)
(* settlement decisions and metrics.                                       *)
(*                                                                         *)
(* Numbers.  Cash amounts, valuations and weights are floats in the source *)
(* and integers here.  The only non-integer coefficient of the compiled    *)
(* model is the haircut (1 - 0.05) = 19/20 of Model.py:141; every account  *)
(* constraint is multiplied through by HaircutDen so that it stays exact.  *)
(* A linear constraint is a record [terms, rhs] that stands for            *)
(*      SUM coef * value(var)  <=  rhs                                     *)
(* with terms a sequence of <<coef, kind, id>>, kind one of the variable   *)
(* dictionaries "x", "y", "z", "need" and id its key.                      *)
(*                                                                         *)
(* The solver is external: it is modelled by its contract, any assignment  *)
(* within the declared bounds that satisfies every added constraint        *)
(* (FEASIBLE), one of those that maximises the objective (OPTIMAL),        *)
(* INFEASIBLE when there is none, or an internal error (ABNORMAL).         *)
(* MPVariable.solution_value() rounds integer variables, so x, y and z are *)
(* integers; a continuous variable is sampled at the two ends of its       *)
(* interval.                                                               *)
(***************************************************************************)
EXTENDS Integers, Sequences, FiniteSets, TLC

VARIABLES
    ntsp_data,      \* the NTSPInput bundle passed to solve_ntsp
    lambda_weight,  \* <<numerator, denominator>> of the caller's lambda
    pc,             \* position inside solve_ntsp
    solver,         \* result of pywraplp.Solver.CreateSolver('CBC')
    vars,           \* declared decision variables: kind -> key -> bounds
    objective,      \* [terms, den] once add_objective has run
    cons,           \* sequence of constraints added to the solver so far
    status,         \* result of solver.Solve()
    sol,            \* solution values of x, y, z, need
    metrics,        \* the metrics dictionary
    ret,            \* what solve_ntsp hands to its caller
    console,        \* lines printed unconditionally by solve_ntsp
    prev,           \* what the caller kept of an earlier invocation
    gen             \* locals of a data generator of DataInput.py

state == <<ntsp_data, lambda_weight, pc, solver, vars, objective, cons, status,
          sol, metrics, ret, console, prev, gen>>

(***************************************************************************)
(* Bounds of the model.                                                    *)
(***************************************************************************)
MaxTx == 2

(***************************************************************************)
(* Program constants.                                                      *)
(***************************************************************************)
HaircutNum == 19
HaircutDen == 20

None == [kind |-> "None"]

(***************************************************************************)
(* Sequence helpers (Python list comprehensions and sum()).                *)
(***************************************************************************)
RECURSIVE SumSeq(_)
SumSeq(s) == IF s = <<>> THEN 0 ELSE Head(s) + SumSeq(Tail(s))

RECURSIVE Flatten(_)
Flatten(ss) == IF ss = <<>> THEN <<>> ELSE Head(ss) \o Flatten(Tail(ss))

Range(s) == {s[i] : i \in 1..Len(s)}

Scale(k, terms) == [i \in 1..Len(terms) |->
                       <<k * terms[i][1], terms[i][2], terms[i][3]>>]

Eval(terms, a) ==
    SumSeq([i \in 1..Len(terms) |-> terms[i][1] * a[terms[i][2]][terms[i][3]]])

(***************************************************************************)
(* Model.py helper functions.                                              *)
(***************************************************************************)
\* T_debit / T_credit: account id -> ids of the transactions debiting /
\* crediting it, in list order.
get_transaction_lookups(d) ==
    [T_debit  |-> [a \in {acc.id : acc \in Range(d.accounts)} |->
                      LET ts == SelectSeq(d.transactions,
                                          LAMBDA t : t.debit_account = a)
                      IN  [i \in 1..Len(ts) |-> ts[i].id]],
     T_credit |-> [a \in {acc.id : acc \in Range(d.accounts)} |->
                      LET ts == SelectSeq(d.transactions,
                                          LAMBDA t : t.credit_account = a)
                      IN  [i \in 1..Len(ts) |-> ts[i].id]]]

\* T_debit_sec / T_credit_sec: (account id, security id) of every position ->
\* the transactions on that security crediting / debiting that account.
get_security_transaction_lookups(d) ==
    LET keys == {<<sp.account_id, sp.id>> : sp \in Range(d.security_positions)}
    IN  [T_debit_sec  |-> [k \in keys |->
                              SelectSeq(d.transactions,
                                  LAMBDA t : <<t.credit_account, t.security_id>> = k)],
         T_credit_sec |-> [k \in keys |->
                              SelectSeq(d.transactions,
                                  LAMBDA t : <<t.debit_account, t.security_id>> = k)]]

(***************************************************************************)
(* Model building functions.                                               *)
(***************************************************************************)
BoolVar == [lb |-> 0, ub |-> 1, integer |-> TRUE]
IntVar(lb, ub) == [lb |-> lb, ub |-> ub, integer |-> TRUE]
NumVar(lb, ub) == [lb |-> lb, ub |-> ub, integer |-> FALSE]

\* The dictionaries x, y, z, need.  Account, Transaction and SecurityPosition
\* (DataModels.py) carry none of the optional attributes is_pab, has_sbs,
\* is_non_us_gov, so pab_need and sbs_seg are empty; the haircut variables
\* are declared in [0, 1] and appear in no constraint and in no result.
build_decision_variables(d) ==
    [x    |-> [id \in {t.id : t \in Range(d.transactions)} |-> BoolVar],
     y    |-> [id \in {l.id : l \in Range(d.collateral_links)} |->
                  LET l == CHOOSE l \in Range(d.collateral_links) : l.id = id
                  IN  IntVar(0, l.q_lim)],
     z    |-> [id \in {l.id : l \in Range(d.collateral_links)} |-> BoolVar],
     need |-> [id \in {acc.id : acc \in Range(d.accounts)} |->
                  LET ts == SelectSeq(d.transactions,
                                      LAMBDA t : t.debit_account = id)
                  IN  NumVar(0, SumSeq([i \in 1..Len(ts) |-> ts[i].cash_amount]))],
     haircut |-> [id \in {sp.id : sp \in Range(d.security_positions)} |->
                  NumVar(0, 1)]]

\* The two constant denominators of the objective.
WeightedCash(d) ==
    SumSeq([i \in 1..Len(d.transactions) |->
               d.transactions[i].weight * d.transactions[i].cash_amount])
TotalWeight(d) ==
    SumSeq([i \in 1..Len(d.transactions) |-> d.transactions[i].weight])

add_objective_cash_only(d, lam) ==
    IF WeightedCash(d) = 0 \/ TotalWeight(d) = 0
    THEN [raised |-> "ZeroDivisionError"]
    ELSE [raised |-> "",
          terms  |-> [i \in 1..Len(d.transactions) |->
                        LET t == d.transactions[i]
                        IN  <<lam[1] * t.weight * t.cash_amount * TotalWeight(d),
                              "x", t.id>>],
          den    |-> lam[2] * WeightedCash(d) * TotalWeight(d)]

\* Maximize  lam * SUM(w a x) / SUM(w a)  +  (1 - lam) * SUM(w x) / SUM(w),
\* brought to the common denominator lam[2] * SUM(w a) * SUM(w).  Dividing
\* by a zero sum raises ZeroDivisionError.
add_objective(d, lam) ==
    IF WeightedCash(d) = 0 \/ TotalWeight(d) = 0
    THEN [raised |-> "ZeroDivisionError"]
    ELSE [raised |-> "",
          terms  |-> [i \in 1..Len(d.transactions) |->
                        LET t == d.transactions[i]
                        IN  <<lam[1] * t.weight * t.cash_amount * TotalWeight(d)
                              + (lam[2] - lam[1]) * t.weight * WeightedCash(d),
                              "x", t.id>>],
          den    |-> lam[2] * WeightedCash(d) * TotalWeight(d)]

\* The linear expressions of one account (Model.py:136-143), as terms.
\* collateral_expr = SUM lot_size * valuation * (1 - 0.05) * y carries the
\* haircut's numerator only: every account constraint is multiplied through
\* by HaircutDen.
debit_sum(d, acc) ==
    LET ids == get_transaction_lookups(d).T_debit[acc.id]
    IN  [i \in 1..Len(ids) |->
            <<(CHOOSE t \in Range(d.transactions) : t.id = ids[i]).cash_amount,
              "x", ids[i]>>]

credit_sum(d, acc) ==
    LET ids == get_transaction_lookups(d).T_credit[acc.id]
    IN  [i \in 1..Len(ids) |->
            <<(CHOOSE t \in Range(d.transactions) : t.id = ids[i]).cash_amount,
              "x", ids[i]>>]

collateral_expr_in_lots(d, acc) ==
    LET ls == SelectSeq(d.collateral_links,
                        LAMBDA l : l.associated_account = acc.id)
    IN  [i \in 1..Len(ls) |-> <<ls[i].lot_size * HaircutNum, "y", ls[i].id>>]

collateral_expr(d, acc) ==
    LET ls == SelectSeq(d.collateral_links,
                        LAMBDA l : l.associated_account = acc.id)
    IN  [i \in 1..Len(ls) |->
            <<ls[i].lot_size * ls[i].valuation * HaircutNum, "y", ls[i].id>>]

NeedConstraintCreditAdded(d, acc) ==
    [terms |-> Scale(HaircutDen, debit_sum(d, acc))
               \o Scale(HaircutDen, credit_sum(d, acc))
               \o << <<-HaircutDen, "need", acc.id>> >>,
     rhs   |-> HaircutDen * acc.initial_cash]

\* need[acc] >= debit_sum - credit_sum - initial_cash
NeedConstraint(d, acc) ==
    [terms |-> Scale(HaircutDen, debit_sum(d, acc))
               \o Scale(-HaircutDen, credit_sum(d, acc))
               \o << <<-HaircutDen, "need", acc.id>> >>,
     rhs   |-> HaircutDen * acc.initial_cash]

BalanceConstraintWithNeed(d, acc) ==
    [terms |-> Scale(HaircutDen, debit_sum(d, acc))
               \o Scale(-HaircutDen, credit_sum(d, acc))
               \o << <<-HaircutDen, "need", acc.id>> >>,
     rhs   |-> HaircutDen * acc.initial_cash]

BalanceConstraintOnLimit(d, acc) ==
    [terms |-> Scale(HaircutDen, debit_sum(d, acc))
               \o Scale(-HaircutDen, credit_sum(d, acc)),
     rhs   |-> HaircutDen * (acc.initial_cash + acc.credit_limit)]

\* debit_sum - credit_sum <= initial_cash + collateral_expr
BalanceConstraint(d, acc) ==
    [terms |-> Scale(HaircutDen, debit_sum(d, acc))
               \o Scale(-HaircutDen, credit_sum(d, acc))
               \o Scale(-1, collateral_expr(d, acc)),
     rhs   |-> HaircutDen * acc.initial_cash]

CreditLimitConstraintPlusCash(d, acc) ==
    [terms |-> collateral_expr(d, acc),
     rhs   |-> HaircutDen * (acc.initial_cash + acc.credit_limit)]

\* collateral_expr <= credit_limit
CreditLimitConstraint(d, acc) ==
    [terms |-> collateral_expr(d, acc),
     rhs   |-> HaircutDen * acc.credit_limit]

\* Neither Account attribute is_pab, bank_equity_capital nor
\* state_muni_holdings exists: the non-PAB branch and the general credit
\* limit are what every account gets.
AccountConstraints(d, acc) ==
    << NeedConstraint(d, acc), BalanceConstraint(d, acc),
       CreditLimitConstraint(d, acc) >>

add_account_constraints(d) ==
    Flatten([i \in 1..Len(d.accounts) |-> AccountConstraints(d, d.accounts[i])])

AfterLinkConstraintSelf(al) ==
    [terms |-> << <<1, "x", al.t2>>, <<-1, "x", al.t2>> >>, rhs |-> 0]

AfterLinkConstraintSwapped(al) ==
    [terms |-> << <<1, "x", al.t1>>, <<-1, "x", al.t2>> >>, rhs |-> 0]

\* x[t2] <= x[t1]
AfterLinkConstraint(al) ==
    [terms |-> << <<1, "x", al.t2>>, <<-1, "x", al.t1>> >>, rhs |-> 0]

add_after_link_constraints(d) ==
    [i \in 1..Len(d.after_links) |-> AfterLinkConstraint(d.after_links[i])]

\* x[t] <= z[l] for every trigger t of the link
TriggerActivates(l) ==
    [i \in 1..Len(l.triggered_transactions) |->
        [terms |-> << <<1, "x", l.triggered_transactions[i]>>,
                      <<-1, "z", l.id>> >>,
         rhs   |-> 0]]

ActivationNeedsNoTrigger(l) ==
    [terms |-> << <<1, "z", l.id>> >>, rhs |-> 1]

\* z[l] <= SUM x[t] over the triggers of the link
ActivationNeedsTrigger(l) ==
    [terms |-> << <<1, "z", l.id>> >>
               \o [i \in 1..Len(l.triggered_transactions) |->
                      <<-1, "x", l.triggered_transactions[i]>>],
     rhs   |-> 0]

LotBoundsInLots(l) ==
    << [terms |-> << <<l.q_min, "z", l.id>>, <<-l.lot_size, "y", l.id>> >>,
        rhs   |-> 0],
       [terms |-> << <<1, "y", l.id>>, <<-l.q_lim, "z", l.id>> >>,
        rhs   |-> 0] >>

LotBoundsWithoutActivation(l) ==
    << [terms |-> << <<-l.lot_size, "y", l.id>> >>, rhs |-> -l.q_min],
       [terms |-> << <<l.lot_size, "y", l.id>>, <<-l.q_lim, "z", l.id>> >>,
        rhs   |-> 0] >>

\* lot_size * y[l] >= q_min * z[l]  and  lot_size * y[l] <= q_lim * z[l]
LotBounds(l) ==
    << [terms |-> << <<l.q_min, "z", l.id>>, <<-l.lot_size, "y", l.id>> >>,
        rhs   |-> 0],
       [terms |-> << <<l.lot_size, "y", l.id>>, <<-l.q_lim, "z", l.id>> >>,
        rhs   |-> 0] >>

CollateralLinkConstraints(l) ==
    TriggerActivates(l) \o <<ActivationNeedsTrigger(l)>> \o LotBounds(l)

add_collateral_link_constraints(d) ==
    Flatten([i \in 1..Len(d.collateral_links) |->
                CollateralLinkConstraints(d.collateral_links[i])])

\* The quantities of one position (Model.py:214-220), as terms.
debit_qty(d, sp) ==
    LET ts == get_security_transaction_lookups(d).T_debit_sec[<<sp.account_id, sp.id>>]
    IN  [i \in 1..Len(ts) |-> <<ts[i].quantity, "x", ts[i].id>>]

credit_qty(d, sp) ==
    LET ts == get_security_transaction_lookups(d).T_credit_sec[<<sp.account_id, sp.id>>]
    IN  [i \in 1..Len(ts) |-> <<ts[i].quantity, "x", ts[i].id>>]

collateral_qty(d, sp) ==
    LET ls == SelectSeq(d.collateral_links,
                        LAMBDA l : l.associated_account = sp.account_id
                                   /\ l.security_id = sp.id)
    IN  [i \in 1..Len(ls) |-> <<ls[i].lot_size, "y", ls[i].id>>]

SecurityPositionConstraintFree(d, sp) ==
    [terms |-> debit_qty(d, sp) \o Scale(-1, credit_qty(d, sp)),
     rhs   |-> sp.initial_quantity]

\* debit_qty - credit_qty <= initial_quantity - collateral_qty
SecurityPositionConstraint(d, sp) ==
    [terms |-> debit_qty(d, sp) \o Scale(-1, credit_qty(d, sp))
               \o collateral_qty(d, sp),
     rhs   |-> sp.initial_quantity]

add_security_position_constraints(d) ==
    [i \in 1..Len(d.security_positions) |->
        SecurityPositionConstraint(d, d.security_positions[i])]

\* No Account has the attribute has_sbs: the loop adds nothing.
add_sbs_segregation_constraints(d) == <<>>

(***************************************************************************)
(* The external solver (pywraplp / CBC), by its contract.                  *)
(***************************************************************************)
Values(v) == IF v.integer THEN v.lb..v.ub ELSE {v.lb, v.ub}

FnSet(decl) ==
    {f \in [DOMAIN decl -> UNION {Values(decl[k]) : k \in DOMAIN decl}] :
        \A k \in DOMAIN decl : f[k] \in Values(decl[k])}

Assignments(vs) ==
    {[x |-> fx, y |-> fy, z |-> fz, need |-> fn] :
        fx \in FnSet(vs.x), fy \in FnSet(vs.y),
        fz \in FnSet(vs.z), fn \in FnSet(vs.need)}

Satisfies(a, cs) == \A i \in 1..Len(cs) : Eval(cs[i].terms, a) <= cs[i].rhs

Feasible(vs, cs) == {a \in Assignments(vs) : Satisfies(a, cs)}

\* The objective value of a is Eval(obj.terms, a) / obj.den.
Optimal(vs, cs, obj) ==
    LET F == Feasible(vs, cs)
    IN  {a \in F : \A b \in F :
            Eval(obj.terms, b) * obj.den <= Eval(obj.terms, a) * obj.den}

SolverOutcomes(vs, cs, obj) ==
    LET F == Feasible(vs, cs)
    IN  {[status |-> "OPTIMAL", sol |-> a] : a \in Optimal(vs, cs, obj)}
        \cup {[status |-> "FEASIBLE", sol |-> a] : a \in F}
        \cup (IF F = {} THEN {[status |-> "INFEASIBLE", sol |-> None]} ELSE {})
        \cup {[status |-> "ABNORMAL", sol |-> None]}

(***************************************************************************)
(* Metrics extraction, Model.py:318-332.                                   *)
(***************************************************************************)
total_cashflow_of_all(d, s) ==
    SumSeq([i \in 1..Len(d.transactions) |-> d.transactions[i].cash_amount])

total_cashflow(d, s) ==
    SumSeq([i \in 1..Len(d.transactions) |->
               s.x[d.transactions[i].id] * d.transactions[i].cash_amount])

\* settled count / len(transactions), kept as <<numerator, denominator>>.
settle_rate(d, s) ==
    << SumSeq([i \in 1..Len(d.transactions) |-> s.x[d.transactions[i].id]]),
       Len(d.transactions) >>

\* One pass over the security positions, each adding the pledged quantity
\* of the links on its (account_id, id).
total_loan(d, s) ==
    SumSeq([i \in 1..Len(d.security_positions) |->
               LET sp == d.security_positions[i]
                   ls == SelectSeq(d.collateral_links,
                            LAMBDA l : l.associated_account = sp.account_id
                                       /\ l.security_id = sp.id)
               IN  SumSeq([j \in 1..Len(ls) |-> ls[j].lot_size * s.y[ls[j].id]])])

ExtractMetrics(d, s) ==
    [total_cashflow |-> total_cashflow(d, s),
     settle_rate    |-> settle_rate(d, s),
     total_loan     |-> total_loan(d, s)]

(***************************************************************************)
(* Input bundles.  Ids follow the randomized generator (DataInput.py):     *)
(* accounts, transactions and links are numbered from 0, securities from   *)
(* 101.                                                                    *)
(***************************************************************************)
Account(id, initial_cash, credit_limit) ==
    [id |-> id, owner_id |-> id, initial_cash |-> initial_cash,
     credit_limit |-> credit_limit]

SecurityPosition(id, account_id, initial_quantity) ==
    [id |-> id, account_id |-> account_id, initial_quantity |-> initial_quantity]

Transaction(id, cash_amount, weight, debit_account, credit_account) ==
    [id |-> id, cash_amount |-> cash_amount, weight |-> weight,
     debit_account |-> debit_account, credit_account |-> credit_account,
     security_id |-> 101, quantity |-> 1, security_flow |-> -1]

CollateralLink(lot_size, valuation, q_min, q_lim, triggered_transactions) ==
    [id |-> 0, associated_account |-> 0, lot_size |-> lot_size,
     valuation |-> valuation, q_min |-> q_min, q_lim |-> q_lim,
     triggered_transactions |-> triggered_transactions, security_id |-> 101]

AfterLink(t1, t2) == [t1 |-> t1, t2 |-> t2]

\* Transaction lists of length n; c[i] = <<cash_amount, weight, debit, credit>>.
TransactionLists(n, choices) ==
    {[i \in 1..n |-> Transaction(i - 1, c[i][1], c[i][2], c[i][3], c[i][4])] :
        c \in [1..n -> choices]}

\* No after-link, one after-link, or two after-links forming a cycle.
TransactionPairs(n) == {p \in (0..(n - 1)) \X (0..(n - 1)) : p[1] # p[2]}

AfterLinkLists(n) ==
    {<<>>}
    \cup {<<AfterLink(p[1], p[2])>> : p \in TransactionPairs(n)}
    \cup {<<AfterLink(p[1], p[2]), AfterLink(p[2], p[1])>> :
             p \in {q \in TransactionPairs(n) : q[1] < q[2]}}

\* Trigger lists over n transactions: none, the first one, all of them
\* (all of them is what both generators assign: every transaction is on
\* the link's security).
TriggerLists(n) ==
    {<<>>, [i \in 1..n |-> i - 1]} \cup (IF n >= 1 THEN {<<0>>} ELSE {})

CollateralLinkLists(n, shapes) ==
    {<<>>} \cup {<<CollateralLink(sh[1], sh[2], sh[3], sh[4], tr)>> :
                    sh \in shapes, tr \in TriggerLists(n)}

\* No position, one position of account 0, the same position twice (the
\* generator draws the holders of a security with replacement), one
\* position per account.
SecurityPositionLists ==
    { <<>>,
      <<SecurityPosition(101, 0, 2)>>,
      <<SecurityPosition(101, 0, 2), SecurityPosition(101, 0, 2)>>,
      <<SecurityPosition(101, 0, 1), SecurityPosition(101, 1, 0)>> }

BundlesOfSize(n, choices, cash0, limits0, shapes) ==
    {[transactions |-> ts, accounts |-> <<Account(0, ic, cl), Account(1, 20, 0)>>,
      collateral_links |-> ls, after_links |-> als, security_positions |-> sps] :
        ts \in TransactionLists(n, choices), ic \in cash0, cl \in limits0,
        ls \in CollateralLinkLists(n, shapes), als \in AfterLinkLists(n),
        sps \in SecurityPositionLists}

Bundles(sizes, choices, cash0, limits0, shapes) ==
    UNION {BundlesOfSize(n, choices, cash0, limits0, shapes) : n \in sizes}

\* Bundles that satisfy the data model: positive cash amounts and weights,
\* distinct debit and credit accounts, 0 <= q_min <= q_lim, lot_size > 0.
TransactionChoices == {<<20, 1, 0, 1>>, <<40, 1, 1, 0>>}
LinkShapes == {<<1, 20, 1, 2>>, <<2, 10, 0, 2>>}
ValidBundles == Bundles(0..MaxTx, TransactionChoices, {0, 20}, {0, 19, 40}, LinkShapes)

\* lambda_weight: the default 0.5 (Model.py:275).
LambdaWeights == {<<1, 2>>}

(***************************************************************************)
(* solve_ntsp, Model.py:275-367, one action per step.                      *)
(***************************************************************************)
Unset == [kind |-> "unset"]

Start(d, lam) ==
    /\ ntsp_data = d
    /\ lambda_weight = lam
    /\ pc = "CreateSolver"
    /\ solver = "unset"
    /\ vars = Unset
    /\ objective = Unset
    /\ cons = <<>>
    /\ status = "unset"
    /\ sol = None
    /\ metrics = None
    /\ ret = Unset
    /\ console = <<>>
    /\ gen = Unset

Init ==
    /\ \E d \in ValidBundles, lam \in LambdaWeights : Start(d, lam)
    /\ prev = None

\* CreateSolver('CBC') returns a solver.
CreateSolver ==
    /\ pc = "CreateSolver"
    /\ solver' = "CBC"
    /\ pc' = "build_decision_variables"
    /\ UNCHANGED <<ntsp_data, lambda_weight, vars, objective, cons, status,
                   sol, metrics, ret, console, prev, gen>>

\* CreateSolver('CBC') returns None: print and return (None).
CreateSolverFails ==
    /\ pc = "CreateSolver"
    /\ solver' = "None"
    /\ console' = Append(console, "Error: Could not create solver.")
    /\ ret' = None
    /\ pc' = "done"
    /\ UNCHANGED <<ntsp_data, lambda_weight, vars, objective, cons, status,
                   sol, metrics, prev, gen>>

BuildDecisionVariables ==
    /\ pc = "build_decision_variables"
    /\ vars' = build_decision_variables(ntsp_data)
    /\ pc' = "add_objective"
    /\ UNCHANGED <<ntsp_data, lambda_weight, solver, objective, cons, status,
                   sol, metrics, ret, console, prev, gen>>

\* A ZeroDivisionError raised by add_objective propagates out of solve_ntsp.
AddObjective ==
    /\ pc = "add_objective"
    /\ LET o == add_objective(ntsp_data, lambda_weight)
       IN  IF o.raised # ""
           THEN /\ ret' = [kind |-> "raise", exception |-> o.raised]
                /\ pc' = "done"
                /\ UNCHANGED objective
           ELSE /\ objective' = o
                /\ pc' = "add_account_constraints"
                /\ UNCHANGED ret
    /\ UNCHANGED <<ntsp_data, lambda_weight, solver, vars, cons, status, sol,
                   metrics, console, prev, gen>>

AddAccountConstraints ==
    /\ pc = "add_account_constraints"
    /\ cons' = cons \o add_account_constraints(ntsp_data)
    /\ pc' = "add_after_link_constraints"
    /\ UNCHANGED <<ntsp_data, lambda_weight, solver, vars, objective, status,
                   sol, metrics, ret, console, prev, gen>>

AddAfterLinkConstraints ==
    /\ pc = "add_after_link_constraints"
    /\ cons' = cons \o add_after_link_constraints(ntsp_data)
    /\ pc' = "add_collateral_link_constraints"
    /\ UNCHANGED <<ntsp_data, lambda_weight, solver, vars, objective, status,
                   sol, metrics, ret, console, prev, gen>>

AddCollateralLinkConstraints ==
    /\ pc = "add_collateral_link_constraints"
    /\ cons' = cons \o add_collateral_link_constraints(ntsp_data)
    /\ pc' = "add_security_position_constraints"
    /\ UNCHANGED <<ntsp_data, lambda_weight, solver, vars, objective, status,
                   sol, metrics, ret, console, prev, gen>>

AddSecurityPositionConstraints ==
    /\ pc = "add_security_position_constraints"
    /\ cons' = cons \o add_security_position_constraints(ntsp_data)
    /\ pc' = "add_sbs_segregation_constraints"
    /\ UNCHANGED <<ntsp_data, lambda_weight, solver, vars, objective, status,
                   sol, metrics, ret, console, prev, gen>>

AddSbsSegregationConstraints ==
    /\ pc = "add_sbs_segregation_constraints"
    /\ cons' = cons \o add_sbs_segregation_constraints(ntsp_data)
    /\ pc' = "Solve"
    /\ UNCHANGED <<ntsp_data, lambda_weight, solver, vars, objective, status,
                   sol, metrics, ret, console, prev, gen>>

\* status = solver.Solve()
Solve ==
    /\ pc = "Solve"
    /\ \E o \in SolverOutcomes(vars, cons, objective) :
          /\ status' = o.status
          /\ sol' = o.sol
    /\ pc' = "extract"
    /\ UNCHANGED <<ntsp_data, lambda_weight, solver, vars, objective, cons,
                   metrics, ret, console, prev, gen>>

\* Model.py:317-367: on OPTIMAL or FEASIBLE compute the metrics and return
\* (solver, x, y, z, need, metrics); otherwise print and fall off the end of
\* the function (return None).  The diagnostics printed under print_console
\* change no state and are left out.
Extract ==
    /\ pc = "extract"
    /\ IF status \in {"OPTIMAL", "FEASIBLE"}
       THEN /\ metrics' = ExtractMetrics(ntsp_data, sol)
            /\ ret' = [kind |-> "tuple", x |-> sol.x, y |-> sol.y, z |-> sol.z,
                       need |-> sol.need, metrics |-> metrics']
            /\ UNCHANGED console
       ELSE /\ console' = Append(console, "No feasible solution found.")
            /\ ret' = None
            /\ UNCHANGED metrics
    /\ pc' = "done"
    /\ UNCHANGED <<ntsp_data, lambda_weight, solver, vars, objective, cons,
                   status, sol, prev, gen>>

Next ==
    \/ CreateSolver
    \/ CreateSolverFails
    \/ BuildDecisionVariables
    \/ AddObjective
    \/ AddAccountConstraints
    \/ AddAfterLinkConstraints
    \/ AddCollateralLinkConstraints
    \/ AddSecurityPositionConstraints
    \/ AddSbsSegregationConstraints
    \/ Solve
    \/ Extract

Spec == Init /\ [][Next]_state

(***************************************************************************)
(* A caller that invokes solve_ntsp again and again (the batch loop of     *)
(* main.py), on any bundle the record types accept: DataModels.py declares *)
(* field types only, so a bundle may also hold a transaction whose debit   *)
(* and credit account coincide, a zero weight, q_min > q_lim or a negative *)
(* initial_cash.  prev keeps what the last failed invocation handed back.  *)
(***************************************************************************)
CallerTransactionChoices == {<<20, 1, 0, 1>>, <<20, 0, 0, 1>>, <<20, 1, 0, 0>>}
CallerLinkShapes == {<<1, 20, 1, 2>>, <<1, 20, 3, 2>>}
CallerBundles ==
    Bundles(0..1, CallerTransactionChoices, {-20, 20}, {40}, CallerLinkShapes)

\* Why the invocation that has just ended failed, "" when it did not.
FailureCause ==
    IF solver = "None" THEN "solver_unavailable"
    ELSE IF status = "ABNORMAL" THEN "solver_error"
    ELSE IF status = "INFEASIBLE" THEN "infeasible"
    ELSE IF ret.kind = "raise" THEN "exception"
    ELSE ""

InitCalls ==
    /\ \E d \in CallerBundles, lam \in LambdaWeights : Start(d, lam)
    /\ prev = None

Invoke ==
    /\ pc = "done"
    /\ prev' = IF FailureCause # ""
               THEN [cause |-> FailureCause, ret |-> ret, console |-> console]
               ELSE prev
    /\ \E d \in CallerBundles, lam \in LambdaWeights :
          /\ ntsp_data' = d
          /\ lambda_weight' = lam
    /\ pc' = "CreateSolver"
    /\ solver' = "unset"
    /\ vars' = Unset
    /\ objective' = Unset
    /\ cons' = <<>>
    /\ status' = "unset"
    /\ sol' = None
    /\ metrics' = None
    /\ ret' = Unset
    /\ console' = <<>>
    /\ gen' = gen

NextCalls == Next \/ Invoke

SpecCalls == InitCalls /\ [][NextCalls]_state

(***************************************************************************)
(* A caller that keeps the objective value of its last optimal invocation  *)
(* in prev and invokes solve_ntsp again, on the same bundle or on another. *)
(* Every invocation creates its own solver (Model.py:287): nothing of the  *)
(* previous model is left in it.                                           *)
(***************************************************************************)
RepeatLambdas == {<<1, 4>>, <<1, 2>>}
RepeatBundles ==
    {d \in BundlesOfSize(2, TransactionChoices, {0, 20}, {0}, {}) :
        d.security_positions = <<>>}

\* The value solver.Objective().Value() of the solution, as numerator and
\* denominator.
ObjectiveValue == <<Eval(objective.terms, sol), objective.den>>

ReusedSolver == cons

\* The constraints of the solver that CreateSolver hands to an invocation.
NewSolver == <<>>

InitRepeat ==
    /\ \E d \in RepeatBundles, lam \in RepeatLambdas : Start(d, lam)
    /\ prev = None

InvokeAgain ==
    /\ pc = "done"
    /\ prev' = IF ret.kind = "tuple" /\ status = "OPTIMAL"
               THEN [data |-> ntsp_data, lam |-> lambda_weight,
                     value |-> ObjectiveValue]
               ELSE prev
    /\ \E d \in RepeatBundles, lam \in RepeatLambdas :
          /\ ntsp_data' = d
          /\ lambda_weight' = lam
    /\ pc' = "CreateSolver"
    /\ solver' = "unset"
    /\ vars' = Unset
    /\ objective' = Unset
    /\ cons' = NewSolver
    /\ status' = "unset"
    /\ sol' = None
    /\ metrics' = None
    /\ ret' = Unset
    /\ console' = <<>>
    /\ gen' = gen

NextRepeat == Next \/ InvokeAgain

SpecRepeat == InitRepeat /\ [][NextRepeat]_state

(***************************************************************************)
(* solve_ntsp on the worked scenarios of the documentation: a payment of   *)
(* 1000 out of an account that holds 500, with or without a credit limit   *)
(* and a collateral link, and two payments of 100 chained by an            *)
(* after-link.  What a scenario leaves open (the other account's cash, the *)
(* weight, the counterparties, lambda_weight, whether positions are        *)
(* listed) is drawn from small sets.                                       *)
(***************************************************************************)
ScenarioLambdas == {<<0, 1>>, <<1, 4>>, <<1, 1>>}

PledgeScenarioBundles ==
    {[transactions |-> <<Transaction(0, 1000, w, 0, 1)>>,
      accounts |-> <<Account(0, ic0, cl0), Account(1, ic1, 0)>>,
      collateral_links |-> ls, after_links |-> <<>>, security_positions |-> sps] :
        w \in {1, 2}, ic0 \in {500, 1000}, cl0 \in {0, 1000}, ic1 \in {0, 500},
        ls \in {<<>>, <<CollateralLink(1, 1000, 0, 1, <<0>>)>>},
        sps \in {<<>>, <<SecurityPosition(101, 0, 0), SecurityPosition(101, 1, 1)>>}}

ChainScenarioBundles ==
    {[transactions |-> <<Transaction(0, 100, 1, 0, c1), Transaction(1, 100, 1, 1, c2)>>,
      accounts |-> <<Account(0, icA, 0), Account(1, icB, 0), Account(2, 0, 0)>>,
      collateral_links |-> <<>>, after_links |-> als, security_positions |-> <<>>] :
        c1 \in {1, 2}, c2 \in {0, 2}, icA \in {0, 50, 100}, icB \in {100, 200},
        als \in {<<>>, <<AfterLink(0, 1)>>}}

ScenarioBundles == PledgeScenarioBundles \cup ChainScenarioBundles

InitScenarios ==
    /\ \E d \in ScenarioBundles, lam \in ScenarioLambdas : Start(d, lam)
    /\ prev = None

SpecScenarios == InitScenarios /\ [][Next]_state

(***************************************************************************)
(* generate_ntsp_input, DataInput.py:125-268, one action per phase.  The   *)
(* random draws that decide a branch or an identity (how many accounts     *)
(* hold a security, which accounts and which security a transaction uses)  *)
(* are drawn in full; the draws of an amount are taken at the lower end of *)
(* their range.  solve_ntsp is not running while the generator does.       *)
(***************************************************************************)
MaxGenAccounts == 4
MaxGenCount == 2
MaxGenSecurities == 1

solve_ntsp_locals ==
    <<ntsp_data, lambda_weight, pc, solver, vars, objective, cons, status,
      sol, metrics, ret, console, prev>>

NotCalled ==
    /\ ntsp_data = Unset
    /\ lambda_weight = Unset
    /\ pc = "not called"
    /\ solver = "unset"
    /\ vars = Unset
    /\ objective = Unset
    /\ cons = <<>>
    /\ status = "unset"
    /\ sol = None
    /\ metrics = None
    /\ ret = Unset
    /\ console = <<>>
    /\ prev = None

\* random.randint(lo, hi): any integer of lo..hi, ValueError when empty.
randint(lo, hi) == lo..hi

\* The draw of an amount, taken at the lower end of its range.
AmountDraw(lo, hi) == lo

\* The fields a Transaction must be given: all of them are declared with
\* Field(...), none has a default (DataModels.py:54-61).
TransactionFields ==
    {"id", "cash_amount", "weight", "debit_account", "credit_account",
     "security_id", "quantity", "security_flow"}

account_ids(accounts) == [k \in 1..Len(accounts) |-> accounts[k].id]

possible_credit_any(accounts, debit_acc) == account_ids(accounts)

possible_credit(accounts, debit_acc) ==
    SelectSeq(account_ids(accounts), LAMBDA id : id # debit_acc)

InitGen ==
    /\ NotCalled
    /\ \E n_transactions \in 1..MaxGenCount, n_collateral_links \in 1..MaxGenCount,
          n_accounts \in 1..MaxGenAccounts, n_securities \in 1..MaxGenSecurities :
          gen = [pc                 |-> "accounts",
                 n_transactions     |-> n_transactions,
                 n_collateral_links |-> n_collateral_links,
                 n_accounts         |-> n_accounts,
                 n_securities       |-> n_securities,
                 securities         |-> [k \in 1..n_securities |-> 100 + k],
                 accounts           |-> <<>>,
                 security_positions |-> <<>>,
                 sec                |-> 1,
                 transactions       |-> <<>>,
                 i                  |-> 0,
                 kwargs             |-> Unset,
                 ret                |-> Unset]

\* DataInput.py:164-173
GenAccounts ==
    /\ gen.pc = "accounts"
    /\ gen' = [gen EXCEPT
                 !.accounts = [k \in 1..gen.n_accounts |->
                                  Account(k - 1, AmountDraw(500, 1000),
                                          AmountDraw(500, 1000) + AmountDraw(500, 2000))],
                 !.pc = "security_positions"]
    /\ UNCHANGED solve_ntsp_locals

\* DataInput.py:177-186, one security per step: k = randint(2, n_accounts // 2)
\* accounts are chosen with replacement.
GenSecurityPositions ==
    /\ gen.pc = "security_positions"
    /\ IF randint(2, gen.n_accounts \div 2) = {}
       THEN gen' = [gen EXCEPT !.pc = "done",
                               !.ret = [kind |-> "raise", exception |-> "ValueError"]]
       ELSE \E k \in randint(2, gen.n_accounts \div 2) :
              \E accs \in [1..k -> Range(account_ids(gen.accounts))] :
                gen' = [gen EXCEPT
                          !.security_positions =
                              @ \o [j \in 1..k |->
                                      SecurityPosition(gen.securities[gen.sec], accs[j],
                                                       AmountDraw(100, 1000))],
                          !.sec = @ + 1,
                          !.pc = IF gen.sec = Len(gen.securities)
                                 THEN "transactions" ELSE "security_positions"]
    /\ UNCHANGED solve_ntsp_locals

\* DataInput.py:190-199: the values of one transaction are drawn.
ChooseTransaction ==
    /\ gen.pc = "transactions"
    /\ gen.i < gen.n_transactions
    /\ \E debit_acc \in Range(account_ids(gen.accounts)),
          sec_id \in Range(gen.securities) :
          \E credit_acc \in
                (IF possible_credit(gen.accounts, debit_acc) # <<>>
                 THEN Range(possible_credit(gen.accounts, debit_acc))
                 ELSE {debit_acc}) :
             gen' = [gen EXCEPT
                       !.kwargs = [id             |-> gen.i,
                                   cash_amount    |-> AmountDraw(100, 2000),
                                   weight         |-> 1,
                                   debit_account  |-> debit_acc,
                                   credit_account |-> credit_acc,
                                   security_id    |-> sec_id,
                                   quantity       |-> AmountDraw(10, 100)],
                       !.pc = "Transaction"]
    /\ UNCHANGED solve_ntsp_locals

\* DataInput.py:201-210: Transaction(...) validates its arguments; it is
\* called without security_flow.  No statement after line 201 is reached.
ConstructTransaction ==
    /\ gen.pc = "Transaction"
    /\ IF TransactionFields \subseteq DOMAIN gen.kwargs
       THEN gen' = [gen EXCEPT !.transactions = Append(@, gen.kwargs),
                               !.i = @ + 1,
                               !.pc = "transactions"]
       ELSE gen' = [gen EXCEPT !.pc = "done",
                               !.ret = [kind |-> "raise",
                                        exception |-> "ValidationError"]]
    /\ UNCHANGED solve_ntsp_locals

NextGen ==
    \/ GenAccounts
    \/ GenSecurityPositions
    \/ ChooseTransaction
    \/ ConstructTransaction

SpecGen == InitGen /\ [][NextGen]_state

(***************************************************************************)
(* The after-links of the two generators: step 6 of generate_ntsp_input    *)
(* (DataInput.py:248-255) and the party loop of _transactions_from_csv     *)
(* (DataInput.py:108-118), each applied to the list of transactions that   *)
(* the statements before it build: ids 0..n-1 for the randomized           *)
(* generator, the row labels of the batch for the batch-derived one.  A    *)
(* batch is a DataFrame slice (main.py:12 takes .tail(250)): its row       *)
(* labels are consecutive integers that need not start at 0.  Both loops   *)
(* are taken on their own: in a run of either generator the Transaction    *)
(* constructor raises before the loop is reached (ConstructTransaction).   *)
(***************************************************************************)
MaxLinkedTx == 3
MaxRows == 8

\* The (from, to) parties of a batch row.
RowChoices == {<<1, 2>>, <<3, 2>>}
FirstLabels == {0, 250}

Batches ==
    UNION {{[k \in 1..n |-> [name |-> first + k - 1,
                             from |-> f[k][1], to |-> f[k][2]]] :
               f \in [1..n -> RowChoices]} :
           n \in 6..MaxRows, first \in FirstLabels}

\* pandas' unique(): the values in order of first appearance.
RECURSIVE unique(_)
unique(s) ==
    IF s = <<>> THEN <<>>
    ELSE LET r == unique(SubSeq(s, 1, Len(s) - 1))
         IN  IF s[Len(s)] \in Range(r) THEN r ELSE Append(r, s[Len(s)])

\* pd.concat([batch["to"], batch["from"]]).unique()
all_parties(batch) ==
    unique([k \in 1..Len(batch) |-> batch[k].to]
           \o [k \in 1..Len(batch) |-> batch[k].from])

\* batch.loc[(batch["from"] == party) | (batch["to"] == party)]
party_transactions(batch, party) ==
    SelectSeq(batch, LAMBDA row : row.from = party \/ row.to = party)

possible_preds_or_self(transactions, t) ==
    SelectSeq([k \in 1..Len(transactions) |-> transactions[k].id],
              LAMBDA id : id <= t.id)

\* [u.id for u in transactions if u.id < t.id]
possible_preds(transactions, t) ==
    SelectSeq([k \in 1..Len(transactions) |-> transactions[k].id],
              LAMBDA id : id < t.id)

InitAfterLinks ==
    /\ NotCalled
    /\ \/ \E n \in 1..MaxLinkedTx :
             gen = [pc           |-> "after_links",
                    generator    |-> "generate_ntsp_input",
                    transactions |-> [k \in 1..n |-> [id |-> k - 1]],
                    t            |-> 1,
                    after_links  |-> <<>>]
       \/ \E batch \in Batches :
             gen = [pc           |-> "party_links",
                    generator    |-> "_transactions_from_csv",
                    batch        |-> batch,
                    transactions |-> [k \in 1..Len(batch) |-> [id |-> batch[k].name]],
                    all_parties  |-> all_parties(batch),
                    p            |-> 1,
                    after_links  |-> <<>>]

\* DataInput.py:250-255, one transaction of the loop: with probability 0.3 a
\* transaction other than the first gets a predecessor of smaller id.
RandomizedAfterLink ==
    /\ gen.pc = "after_links"
    /\ LET t     == gen.transactions[gen.t]
           preds == possible_preds(gen.transactions, t)
           next  == IF gen.t = Len(gen.transactions) THEN "done" ELSE "after_links"
       IN  \/ gen' = [gen EXCEPT !.t = @ + 1, !.pc = next]
           \/ /\ t.id > 0
              /\ preds # <<>>
              /\ \E t1 \in Range(preds) :
                    gen' = [gen EXCEPT !.after_links = Append(@, AfterLink(t1, t.id)),
                                       !.t = @ + 1, !.pc = next]
    /\ UNCHANGED solve_ntsp_locals

\* DataInput.py:111-118, one party of the loop: a party with more than 5% of
\* the rows and more than 6 rows gets, with probability 0.25, the links
\* (row k, row k+1) of its own rows for k = 0, 2, 4.
BatchAfterLinks ==
    /\ gen.pc = "party_links"
    /\ LET pt   == party_transactions(gen.batch, gen.all_parties[gen.p])
           next == IF gen.p = Len(gen.all_parties) THEN "done" ELSE "party_links"
       IN  \/ gen' = [gen EXCEPT !.p = @ + 1, !.pc = next]
           \/ /\ 20 * Len(pt) > Len(gen.batch)
              /\ Len(pt) > 6
              /\ gen' = [gen EXCEPT
                           !.after_links =
                               @ \o [j \in 1..3 |->
                                       AfterLink(pt[2 * j - 1].name, pt[2 * j].name)],
                           !.p = @ + 1, !.pc = next]
    /\ UNCHANGED solve_ntsp_locals

NextAfterLinks == RandomizedAfterLink \/ BatchAfterLinks

SpecAfterLinks == InitAfterLinks /\ [][NextAfterLinks]_state

(***************************************************************************)
(* The last step of both generators and the call that follows it: every    *)
(* collateral link gets as triggered_transactions the transactions on its  *)
(* security (DataInput.py:14-15 and 257-260), the bundle is assembled and  *)
(* handed to solve_ntsp (main.py:14-16).  The step starts from lists as    *)
(* the statements before it leave them, links with no trigger yet; it is   *)
(* taken on its own, since in a run of either generator the Transaction    *)
(* constructor raises before it (ConstructTransaction).  Transactions and  *)
(* links are on securities 101 and 102, links on either account.           *)
(***************************************************************************)
AssembledSecurities == {101, 102}

\* <<debit_account, credit_account, security_id>> of a transaction of 20.
AssembledTransactionLists ==
    UNION {{[i \in 1..n |->
                [Transaction(i - 1, 20, 1, c[i][1], c[i][2])
                    EXCEPT !.security_id = c[i][3]]] :
               c \in [1..n -> {q \in {0, 1} \X {0, 1} \X AssembledSecurities :
                                    q[1] # q[2]}]} :
           n \in 1..2}

\* One or two links, triggered_transactions=[] as the generators create
\* them; sh = <<lot_size, q_min, q_lim>>, valuation 20.
UntriggeredLink(id, acc, sec, sh) ==
    [CollateralLink(sh[1], 20, sh[2], sh[3], <<>>)
        EXCEPT !.id = id, !.associated_account = acc, !.security_id = sec]

UntriggeredLinkLists ==
    LET first == {UntriggeredLink(0, acc, sec, sh) :
                     acc \in {0, 1}, sec \in AssembledSecurities,
                     sh \in {<<1, 1, 2>>, <<3, 1, 2>>}}
        second == {UntriggeredLink(1, acc, sec, <<1, 1, 2>>) :
                     acc \in {0, 1}, sec \in AssembledSecurities}
    IN  {<<l>> : l \in first} \cup {<<l, m>> : l \in first, m \in second}

triggered_transactions_of_account(transactions, cl) ==
    LET ts == SelectSeq(transactions,
                        LAMBDA t : /\ t.security_id = cl.security_id
                                   /\ t.debit_account = cl.associated_account)
    IN  [i \in 1..Len(ts) |-> ts[i].id]

\* [t.id for t in transactions if t.security_id == cl.security_id]
triggered_transactions(transactions, cl) ==
    LET ts == SelectSeq(transactions, LAMBDA t : t.security_id = cl.security_id)
    IN  [i \in 1..Len(ts) |-> ts[i].id]

InitAssembled ==
    /\ NotCalled
    /\ \E ts \in AssembledTransactionLists, ls \in UntriggeredLinkLists,
          cl0 \in {0, 40},
          sps \in {<<>>, <<SecurityPosition(101, 0, 0)>>} :
          gen = [pc                 |-> "triggered_transactions",
                 transactions       |-> ts,
                 accounts           |-> <<Account(0, 20, cl0), Account(1, 20, 40)>>,
                 collateral_links   |-> ls,
                 after_links        |-> <<>>,
                 security_positions |-> sps]

\* DataInput.py:259-260 (14-15): the loop over the collateral links.
SetTriggeredTransactions ==
    /\ gen.pc = "triggered_transactions"
    /\ gen' = [gen EXCEPT
                 !.collateral_links =
                     [i \in 1..Len(gen.collateral_links) |->
                         [gen.collateral_links[i] EXCEPT !.triggered_transactions =
                             triggered_transactions(gen.transactions,
                                                    gen.collateral_links[i])]],
                 !.pc = "return"]
    /\ UNCHANGED solve_ntsp_locals

\* DataInput.py:262-268 (17-23) and main.py:14-16: the NTSPInput is built
\* and solve_ntsp is called on it.
ReturnAndSolve ==
    /\ gen.pc = "return"
    /\ pc = "not called"
    /\ ntsp_data' = [transactions       |-> gen.transactions,
                     accounts           |-> gen.accounts,
                     collateral_links   |-> gen.collateral_links,
                     after_links        |-> gen.after_links,
                     security_positions |-> gen.security_positions]
    /\ lambda_weight' = <<1, 4>>
    /\ pc' = "CreateSolver"
    /\ gen' = [gen EXCEPT !.pc = "done"]
    /\ UNCHANGED <<solver, vars, objective, cons, status, sol, metrics, ret,
                   console, prev>>

NextAssembled == SetTriggeredTransactions \/ ReturnAndSolve \/ Next

SpecAssembled == InitAssembled /\ [][NextAssembled]_state

(***************************************************************************)
(* Properties.  They are stated over the bundle and the returned values,   *)
(* with sums over sets of records, independently of the compiled terms.    *)
(***************************************************************************)
RECURSIVE SumOn(_, _)
SumOn(S, f) ==
    IF S = {} THEN 0
    ELSE LET e == CHOOSE e \in S : TRUE IN f[e] + SumOn(S \ {e}, f)

\* The sum of the values of the function f.
SumOver(f) == SumOn(DOMAIN f, f)

\* solve_ntsp has returned (solver, x, y, z, need, metrics).
Returned == pc = "done" /\ ret.kind = "tuple"

AllTransactions == Range(ntsp_data.transactions)
Links == Range(ntsp_data.collateral_links)
Settled == {t \in AllTransactions : ret.x[t.id] = 1}

SettledDebit(a) ==
    SumOver([t \in {u \in Settled : u.debit_account = a} |-> t.cash_amount])
SettledCredit(a) ==
    SumOver([t \in {u \in Settled : u.credit_account = a} |-> t.cash_amount])
\* SUM lot_size * valuation * y over the links of account a.
PledgedValue(a) ==
    SumOver([l \in {k \in Links : k.associated_account = a} |->
                l.lot_size * l.valuation * ret.y[l.id]])
\* SUM lot_size * y over the links of account a on security s.
PledgedQuantity(a, s) ==
    SumOver([l \in {k \in Links : k.associated_account = a /\ k.security_id = s} |->
                l.lot_size * ret.y[l.id]])
SomeTriggerSettled(l) ==
    \E i \in 1..Len(l.triggered_transactions) :
        ret.x[l.triggered_transactions[i]] = 1

\* C1: in every returned assignment, for every after-link (t1, t2), t2
\* settled implies t1 settled.
C1_AfterLinkOrder ==
    Returned =>
        \A i \in 1..Len(ntsp_data.after_links) :
            ret.x[ntsp_data.after_links[i].t2] = 1
                => ret.x[ntsp_data.after_links[i].t1] = 1

\* C1 witness: a returned assignment with an after-link whose t2 is settled.
C1_Witness ==
    /\ Returned
    /\ \E i \in 1..Len(ntsp_data.after_links) :
          /\ ret.x[ntsp_data.after_links[i].t2] = 1
          /\ ret.x[ntsp_data.after_links[i].t1] = 1
          /\ Len(ntsp_data.after_links) = 1

\* C2: in every returned assignment, for every account, settled debits
\* minus settled credits is at most initial_cash plus the value
\* lot_size * valuation * y pledged on the account's collateral links.
C2_AccountBalance ==
    Returned =>
        \A acc \in Range(ntsp_data.accounts) :
            SettledDebit(acc.id) - SettledCredit(acc.id)
                <= acc.initial_cash + PledgedValue(acc.id)

\* C2 witness: an account whose net settled debit exceeds its initial cash,
\* the difference being covered by pledged collateral.
C2_Witness ==
    /\ Returned
    /\ \E acc \in Range(ntsp_data.accounts) :
          /\ SettledDebit(acc.id) - SettledCredit(acc.id) > acc.initial_cash
          /\ PledgedValue(acc.id) > 0

\* C3 as stated: in every returned assignment, for every account, the
\* pledged value SUM lot_size * valuation * y is at most credit_limit.
C3_PledgedValueWithinLimit ==
    Returned =>
        \A acc \in Range(ntsp_data.accounts) :
            PledgedValue(acc.id) <= acc.credit_limit

\* C3 amended: in every returned assignment, for every account, the pledged
\* value after the 5% haircut, 0.95 * SUM lot_size * valuation * y (the
\* quantity added to initial_cash in the balance constraint), is at most
\* credit_limit.
C3_HaircutValueWithinLimit ==
    Returned =>
        \A acc \in Range(ntsp_data.accounts) :
            HaircutNum * PledgedValue(acc.id) <= HaircutDen * acc.credit_limit

\* C3 witness: an account pledges collateral whose haircut value is within
\* the credit limit.
C3_Witness ==
    /\ Returned
    /\ \E acc \in Range(ntsp_data.accounts) :
          /\ PledgedValue(acc.id) > 0
          /\ HaircutNum * PledgedValue(acc.id) <= HaircutDen * acc.credit_limit

C5_PledgeNeedsTrigger ==
    Returned =>
        \A l \in Links :
            /\ ret.y[l.id] > 0 =>
                  /\ SomeTriggerSettled(l)
                  /\ l.q_min <= l.lot_size * ret.y[l.id]
                  /\ l.lot_size * ret.y[l.id] <= l.q_lim
            /\ ~SomeTriggerSettled(l) => ret.y[l.id] = 0

\* C5 witness: a link of lot size 2 pledges a lot.
C5_Witness ==
    /\ Returned
    /\ \E l \in Links : ret.y[l.id] > 0 /\ l.lot_size > 1

\* C6: in every returned assignment, z of a link is 1 exactly when one of
\* its triggers is settled.
C6_ActiveIffTriggered ==
    Returned =>
        \A l \in Links : ret.z[l.id] = 1 <=> SomeTriggerSettled(l)

\* C6 witness: an active link of which one transaction is no trigger.
C6_Witness ==
    /\ Returned
    /\ \E l \in Links :
          /\ ret.z[l.id] = 1
          /\ Len(l.triggered_transactions) < Len(ntsp_data.transactions)

\* C7: settle_rate is (settled count) / (transaction count) and lies in
\* [0, 1]; total_cashflow is the sum of cash_amount over the settled
\* transactions.
C7_Metrics ==
    Returned =>
        /\ ret.metrics.settle_rate = <<Cardinality(Settled), Cardinality(AllTransactions)>>
        /\ ret.metrics.settle_rate[2] > 0
        /\ 0 <= ret.metrics.settle_rate[1]
        /\ ret.metrics.settle_rate[1] <= ret.metrics.settle_rate[2]
        /\ ret.metrics.total_cashflow = SumOver([t \in Settled |-> t.cash_amount])

\* C7 witness: some transaction settled and some not.
C7_Witness ==
    /\ Returned
    /\ Settled # {}
    /\ Settled # AllTransactions

\* C8: total_loan is the sum of lot_size * y over all collateral links,
\* each counted once.
C8_TotalLoan ==
    Returned =>
        ret.metrics.total_loan = SumOver([l \in Links |-> l.lot_size * ret.y[l.id]])

\* The failures that lie with the environment, not with the model.
EnvironmentFailures == {"solver_unavailable", "solver_error"}

\* C9: what solve_ntsp hands back (return value and printed lines) when the
\* solver cannot be created or reports an internal error differs from what
\* it hands back when the model is infeasible; and in neither case are
\* settlement decisions or metrics returned.
C9_FailuresDistinguishable ==
    (pc = "done" /\ FailureCause \in EnvironmentFailures \cup {"infeasible"}) =>
        /\ ret.kind # "tuple"
        /\ metrics = None
        /\ prev # None =>
              ((FailureCause = "infeasible") # (prev.cause = "infeasible")
                  => <<ret, console>> # <<prev.ret, prev.console>>)

\* A bundle that breaks an input invariant of the data model.
InvalidBundle(d) ==
    \/ \E t \in Range(d.transactions) : t.debit_account = t.credit_account
    \/ \E l \in Range(d.collateral_links) : l.q_min > l.q_lim
    \/ TotalWeight(d) = 0

\* C10: for a bundle with a transaction whose debit and credit account
\* coincide, a link with q_min > q_lim or zero total weight, no decision
\* variable and no constraint is ever built, the solver is never run, and
\* the invocation ends in a failure.
C10_InvalidRejectedBeforeCompiling ==
    InvalidBundle(ntsp_data) =>
        /\ vars = Unset
        /\ cons = <<>>
        /\ status = "unset"
        /\ pc = "done" => ret.kind # "tuple"

\* The pairs (t1, t2) such that some chain of one or more after-links leads
\* from t1 to t2.
RECURSIVE TransitiveClosure(_)
TransitiveClosure(R) ==
    LET R2 == R \cup {<<pq[1][1], pq[2][2]>> :
                         pq \in {rs \in R \X R : rs[1][2] = rs[2][1]}}
    IN IF R2 = R THEN R ELSE TransitiveClosure(R2)

Precedes ==
    TransitiveClosure({<<al.t1, al.t2>> : al \in Range(ntsp_data.after_links)})

\* Transaction id t lies on a cycle of after-links.
OnCycle(t) == <<t, t>> \in Precedes

\* C11 as stated: in every returned assignment, no transaction on a cycle
\* of after-links is settled.
C11_CycleNeverSettles ==
    Returned => \A t \in AllTransactions : OnCycle(t.id) => ret.x[t.id] = 0

\* C11 amended: in every returned assignment, the transactions of one cycle
\* of after-links have the same settlement value (all of them settle or none
\* does), and a bundle with a cycle whose solve ends OPTIMAL or FEASIBLE is
\* handed back as a normal success tuple.
C11_CycleSettlesTogether ==
    /\ Returned =>
          \A t, u \in AllTransactions :
              (<<t.id, u.id>> \in Precedes /\ <<u.id, t.id>> \in Precedes)
                  => ret.x[t.id] = ret.x[u.id]
    /\ (pc = "done" /\ status \in {"OPTIMAL", "FEASIBLE"}
           /\ \E t \in AllTransactions : OnCycle(t.id))
          => ret.kind = "tuple"

\* C11 witness: a returned optimal assignment that settles both transactions
\* of a two-cycle of after-links.
C11_Witness ==
    /\ Returned
    /\ status = "OPTIMAL"
    /\ \E t, u \in AllTransactions :
          /\ t.id # u.id
          /\ <<t.id, u.id>> \in Precedes /\ <<u.id, t.id>> \in Precedes
          /\ ret.x[t.id] = 1 /\ ret.x[u.id] = 1

\* The account of the bundle with the given id.
AccountById(id) == CHOOSE acc \in Range(ntsp_data.accounts) : acc.id = id

\* Two accounts and a single transaction of 1000 whose debit account holds
\* an initial cash of 500 and has the given credit limit.
ShortfallScenario(limit) ==
    /\ Len(ntsp_data.accounts) = 2
    /\ Len(ntsp_data.transactions) = 1
    /\ ntsp_data.transactions[1].cash_amount = 1000
    /\ AccountById(ntsp_data.transactions[1].debit_account).initial_cash = 500
    /\ AccountById(ntsp_data.transactions[1].debit_account).credit_limit = limit

\* C12: with two accounts, a single transaction of 1000 debiting an account
\* with initial_cash 500 and credit_limit 0, and no collateral link, every
\* returned assignment leaves the transaction unsettled.
C12_ShortfallNotSettled ==
    (Returned /\ ShortfallScenario(0) /\ ntsp_data.collateral_links = <<>>)
        => ret.x[ntsp_data.transactions[1].id] = 0

\* C12 witness: the scenario is solved to optimality and the transaction is
\* returned unsettled.
C12_Witness ==
    /\ Returned
    /\ status = "OPTIMAL"
    /\ ShortfallScenario(0)
    /\ ntsp_data.collateral_links = <<>>
    /\ ret.x[ntsp_data.transactions[1].id] = 0

\* The debit account of the single transaction has credit_limit 1000 and
\* owns the only collateral link: lot_size 1, valuation 1000, q_min 0,
\* q_lim 1, triggered by the transaction.
PledgeScenario ==
    /\ ShortfallScenario(1000)
    /\ Len(ntsp_data.collateral_links) = 1
    /\ LET l == ntsp_data.collateral_links[1]
       IN  /\ l.associated_account = ntsp_data.transactions[1].debit_account
           /\ l.lot_size = 1 /\ l.valuation = 1000
           /\ l.q_min = 0 /\ l.q_lim = 1
           /\ l.triggered_transactions = <<ntsp_data.transactions[1].id>>

\* C13: with initial_cash 500, credit_limit 1000 and one collateral link of
\* the debit account (lot_size 1, valuation 1000, q_min 0, q_lim 1) that the
\* transaction of 1000 triggers, every optimal result settles the
\* transaction and pledges one lot.
C13_PledgeSettles ==
    (Returned /\ status = "OPTIMAL" /\ PledgeScenario)
        => /\ ret.x[ntsp_data.transactions[1].id] = 1
           /\ ret.y[ntsp_data.collateral_links[1].id] = 1

\* C13 witness: the pledge scenario is solved to optimality with the
\* transaction settled, one lot pledged and the link flagged active.
C13_Witness ==
    /\ Returned
    /\ status = "OPTIMAL"
    /\ PledgeScenario
    /\ ret.x[ntsp_data.transactions[1].id] = 1
    /\ ret.y[ntsp_data.collateral_links[1].id] = 1
    /\ ret.z[ntsp_data.collateral_links[1].id] = 1

\* Exactly two transactions t1, t2 of weight 1 and cash amount 100, the one
\* after-link (t1, t2), no collateral link, at least 100 of initial cash on
\* t2's debit account and less than 100 on t1's.
ChainScenario ==
    /\ Len(ntsp_data.transactions) = 2
    /\ \A i \in 1..2 : /\ ntsp_data.transactions[i].weight = 1
                       /\ ntsp_data.transactions[i].cash_amount = 100
    /\ ntsp_data.after_links =
          <<AfterLink(ntsp_data.transactions[1].id, ntsp_data.transactions[2].id)>>
    /\ ntsp_data.collateral_links = <<>>
    /\ AccountById(ntsp_data.transactions[2].debit_account).initial_cash >= 100
    /\ AccountById(ntsp_data.transactions[1].debit_account).initial_cash < 100

\* C14 as stated: in the chain scenario every optimal solution settles
\* neither transaction, whatever the credit accounts of t1 and t2.
C14_ChainSettlesNeither ==
    (Returned /\ status = "OPTIMAL" /\ ChainScenario)
        => \A i \in 1..2 : ret.x[ntsp_data.transactions[i].id] = 0

\* C14 amended: in the chain scenario every optimal solution settles neither
\* transaction, provided t2 does not credit the debit account of t1.
C14_ChainWithoutNetting ==
    (Returned /\ status = "OPTIMAL" /\ ChainScenario
        /\ ntsp_data.transactions[2].credit_account
              # ntsp_data.transactions[1].debit_account)
        => \A i \in 1..2 : ret.x[ntsp_data.transactions[i].id] = 0

\* C14 witness: an optimal solution of the chain scenario in which t2 pays a
\* third account and neither transaction is settled.
C14_Witness ==
    /\ Returned
    /\ status = "OPTIMAL"
    /\ ChainScenario
    /\ ntsp_data.transactions[2].credit_account
          # ntsp_data.transactions[1].debit_account
    /\ \A i \in 1..2 : ret.x[ntsp_data.transactions[i].id] = 0

\* The objective value of an optimal solution of the model that one call on
\* bundle d with weight lam compiles, no call preceding it.
LoneOptimalValue(d, lam) ==
    LET vs  == build_decision_variables(d)
        obj == add_objective(d, lam)
        cs  == add_account_constraints(d) \o add_after_link_constraints(d)
               \o add_collateral_link_constraints(d)
               \o add_security_position_constraints(d)
               \o add_sbs_segregation_constraints(d)
        a   == CHOOSE a \in Optimal(vs, cs, obj) : TRUE
    IN  <<Eval(obj.terms, a), obj.den>>

ConstraintsWithoutNeed ==
    SelectSeq(cons, LAMBDA c : \A i \in 1..Len(c.terms) : c.terms[i][2] # "need")

\* Assignment a with its need values replaced by n satisfies every
\* constraint of the compiled model.
ExtendsWith(a, n) == Satisfies([a EXCEPT !.need = n], cons)

\* C16: for a bundle whose accounts all have initial_cash >= 0, once the
\* model is compiled every (x, y, z) that satisfies the constraints other
\* than the need constraints extends with need values within the declared
\* bounds to an assignment that satisfies all constraints.
C16_NeedNeverRestricts ==
    (pc = "Solve"
        /\ \A acc \in Range(ntsp_data.accounts) : acc.initial_cash >= 0)
        => \A a \in Assignments(vars) :
              Satisfies(a, ConstraintsWithoutNeed)
                  => \E n \in FnSet(vars.need) : ExtendsWith(a, n)

\* C16 witness: a compiled model and an (x, y, z) satisfying the other
\* constraints for which need = 0 on every account violates a need
\* constraint, while larger need values within the bounds satisfy them.
C16_Witness ==
    /\ pc = "Solve"
    /\ \A acc \in Range(ntsp_data.accounts) : acc.initial_cash >= 0
    /\ \E a \in Assignments(vars) :
          /\ Satisfies(a, ConstraintsWithoutNeed)
          /\ ~ExtendsWith(a, [k \in DOMAIN vars.need |-> 0])
          /\ \E n \in FnSet(vars.need) : ExtendsWith(a, n)

\* The quantity of security position sp that the settled transactions with
\* the given security_flow move.
SettledFlowQuantity(sp, flow) ==
    SumOver([t \in {u \in Settled : u.security_id = sp.id
                                    /\ u.security_flow = flow} |-> t.quantity])

\* C17: in every returned assignment, for every security position, the
\* settled quantity of the transactions on its security with security_flow
\* -1, minus that of the transactions with security_flow +1, is at most
\* initial_quantity minus the quantity pledged from the position.
C17_ClassifiedBySecurityFlow ==
    Returned =>
        \A sp \in Range(ntsp_data.security_positions) :
            SettledFlowQuantity(sp, -1) - SettledFlowQuantity(sp, 1)
                <= sp.initial_quantity - PledgedQuantity(sp.account_id, sp.id)

\* C18: whenever generate_ntsp_input ends, it hands back an NTSPInput with
\* exactly n_transactions transactions, each with security_flow -1, exactly
\* n_collateral_links collateral links and n_accounts accounts.
C18_GeneratorCompletes ==
    gen.pc = "done" =>
        /\ gen.ret.kind = "NTSPInput"
        /\ Len(gen.ret.transactions) = gen.n_transactions
        /\ \A k \in 1..Len(gen.ret.transactions) :
              gen.ret.transactions[k].security_flow = -1
        /\ Len(gen.ret.collateral_links) = gen.n_collateral_links
        /\ Len(gen.ret.accounts) = gen.n_accounts

\* C19: the debit and the credit account that the randomized generator
\* draws for a transaction differ whenever n_accounts >= 2; they are equal
\* only when there is exactly one account.
C19_DebitDiffersFromCredit ==
    gen.pc = "Transaction" =>
        /\ gen.n_accounts >= 2
              => gen.kwargs.debit_account # gen.kwargs.credit_account
        /\ gen.kwargs.debit_account = gen.kwargs.credit_account
              => gen.n_accounts = 1

\* C19 witness: with at least two accounts a transaction's accounts have
\* been drawn, the debit account not being the first account.
C19_Witness ==
    /\ gen.pc = "Transaction"
    /\ gen.n_accounts >= 2
    /\ gen.kwargs.debit_account # gen.kwargs.credit_account
    /\ gen.kwargs.debit_account > 0

\* The place of the transaction with the given id in the generator's list
\* of transactions (for a batch, the place of its row).
PlaceOf(id) ==
    CHOOSE k \in 1..Len(gen.transactions) : gen.transactions[k].id = id

GeneratedPrecedes ==
    TransitiveClosure({<<al.t1, al.t2>> : al \in Range(gen.after_links)})

\* C20: every after-link a generator has appended leads from an earlier to
\* a later transaction of its list; for the randomized generator t1 < t2
\* and the first transaction is never a t2; so t1 # t2 and no transaction
\* lies on a cycle of generated after-links.
C20_AfterLinksPointForward ==
    /\ \A al \in Range(gen.after_links) :
          /\ PlaceOf(al.t1) < PlaceOf(al.t2)
          /\ al.t1 # al.t2
          /\ gen.generator = "generate_ntsp_input"
                => al.t1 < al.t2 /\ al.t2 # gen.transactions[1].id
    /\ \A k \in 1..Len(gen.transactions) :
          <<gen.transactions[k].id, gen.transactions[k].id>> \notin GeneratedPrecedes

\* C20 witness: a generator has finished with at least two after-links, one
\* of which skips a transaction of the list.
C20_Witness ==
    /\ gen.pc = "done"
    /\ Len(gen.after_links) >= 2
    /\ \E al \in Range(gen.after_links) : PlaceOf(al.t2) - PlaceOf(al.t1) >= 2

\* The assignment that settles nothing and pledges nothing.
ZeroAssignment ==
    [x    |-> [k \in DOMAIN vars.x |-> 0],
     y    |-> [k \in DOMAIN vars.y |-> 0],
     z    |-> [k \in DOMAIN vars.z |-> 0],
     need |-> [k \in DOMAIN vars.need |-> 0]]

NonNegativeBundle ==
    /\ \A acc \in Range(ntsp_data.accounts) :
          acc.initial_cash >= 0 /\ acc.credit_limit >= 0
    /\ \A sp \in Range(ntsp_data.security_positions) : sp.initial_quantity >= 0
    /\ \A l \in Links : l.q_lim >= 0

\* C21: for a bundle with initial_cash, credit_limit, initial_quantity and
\* q_lim all non-negative, the all-zero assignment lies within the declared
\* bounds and satisfies every constraint of the compiled model, the solver
\* never reports INFEASIBLE, and "No feasible solution found." is printed
\* only after a solver error.
C21_ZeroAssignmentFeasible ==
    NonNegativeBundle =>
        /\ pc = "Solve" => ZeroAssignment \in Feasible(vars, cons)
        /\ status # "INFEASIBLE"
        /\ "No feasible solution found." \in Range(console)
              => status = "ABNORMAL"

\* C21 witness: the model of a bundle with a collateral link of q_min >= 1
\* and a security position is compiled and the all-zero assignment is
\* feasible for it.
C21_Witness ==
    /\ NonNegativeBundle
    /\ pc = "Solve"
    /\ \E l \in Links : l.q_min >= 1
    /\ ntsp_data.security_positions # <<>>
    /\ ntsp_data.after_links # <<>>
    /\ ZeroAssignment \in Feasible(vars, cons)

\* The ids of the transactions that assignment a settles.
SettledIn(a) == {k \in DOMAIN a.x : a.x[k] = 1}

\* C22: for a bundle whose transactions all have weight > 0 and
\* cash_amount > 0 and a lambda_weight in [0, 1], no feasible assignment of
\* the compiled model settles a strict superset of the transactions that a
\* returned optimal solution settles.
C22_OptimumMaximalByInclusion ==
    (Returned /\ status = "OPTIMAL"
        /\ 0 <= lambda_weight[1] /\ lambda_weight[1] <= lambda_weight[2]
        /\ \A t \in AllTransactions : t.weight > 0 /\ t.cash_amount > 0)
        => \A a \in Feasible(vars, cons) :
              ~(SettledIn(sol) \subseteq SettledIn(a)
                  /\ SettledIn(a) # SettledIn(sol))

\* C22 witness: with lambda_weight = 0 an optimal solution settles one of
\* two transactions, the other one cannot be added, and settling nothing
\* is feasible too.
C22_Witness ==
    /\ Returned
    /\ status = "OPTIMAL"
    /\ lambda_weight[1] = 0
    /\ Cardinality(SettledIn(sol)) = 1
    /\ Cardinality(DOMAIN sol.x) = 2
    /\ \E a \in Feasible(vars, cons) : SettledIn(a) = {}

\* The numbers of lots y with q_min <= lot_size * y <= q_lim that link l
\* can pledge within the credit limit of its account (after the haircut)
\* and within the inventory of its account's position on the security, if
\* one is listed: the initial quantity plus all that transactions on the
\* security can bring in.
PledgeableLots(l) ==
    {y \in 0..l.q_lim :
        /\ l.q_min <= l.lot_size * y
        /\ l.lot_size * y <= l.q_lim
        /\ HaircutNum * l.lot_size * l.valuation * y
              <= HaircutDen * AccountById(l.associated_account).credit_limit
        /\ \A sp \in Range(ntsp_data.security_positions) :
              (sp.account_id = l.associated_account /\ sp.id = l.security_id)
                  => l.lot_size * y
                        <= sp.initial_quantity
                           + SumOver([t \in {u \in AllTransactions :
                                               /\ u.security_id = l.security_id
                                               /\ u.debit_account = l.associated_account}
                                      |-> t.quantity])}

\* C23: once the generators' last step has run, every collateral link is
\* triggered by exactly the transactions on its security, whatever their
\* accounts; in every assignment then returned by solve_ntsp a settled
\* transaction has every link on its security active (z = 1) with
\* lot_size * y >= q_min, and when a link cannot pledge q_min within its
\* account's credit limit or its position's inventory, no transaction on
\* its security is settled.
C23_LinkTriggeredBySecurity ==
    /\ gen.pc \in {"return", "done"} =>
          \A l \in Range(gen.collateral_links) :
              Range(l.triggered_transactions)
                  = {t.id : t \in {u \in Range(gen.transactions) :
                                      u.security_id = l.security_id}}
    /\ Returned =>
          \A l \in Links :
              /\ \A t \in Settled :
                    t.security_id = l.security_id
                        => /\ ret.z[l.id] = 1
                           /\ l.lot_size * ret.y[l.id] >= l.q_min
              /\ PledgeableLots(l) = {}
                    => \A t \in AllTransactions :
                          t.security_id = l.security_id => ret.x[t.id] = 0

\* C23 witness: an optimal result for two transactions on different
\* securities: one is settled and activates a link on its security owned by
\* the account it credits, the other stays unsettled because a link on its
\* security cannot pledge q_min.
C23_Witness ==
    /\ Returned
    /\ status = "OPTIMAL"
    /\ \E t \in Settled, l \in Links :
          /\ t.security_id = l.security_id
          /\ t.credit_account = l.associated_account
          /\ ret.z[l.id] = 1
          /\ l.lot_size * ret.y[l.id] >= l.q_min
    /\ \E t \in AllTransactions, l \in Links :
          /\ t.security_id = l.security_id
          /\ PledgeableLots(l) = {}
          /\ ret.x[t.id] = 0

====
